---- MODULE Spec2Model ----
(***************************************************************************)
(* Model of the order-statistic AVL tree engine of avl_tree.cpp.           *)
(*                                                                         *)
(* A subtree is a value: Null, or a node record holding its two child      *)
(* subtrees (the code's owning pointers), its element, its stored size,    *)
(* its stored balance factor and its cached range intermediate.  Every     *)
(* helper function of the source is an operator that returns what the      *)
(* function returns (new subtree root, height flag, result) together with  *)
(* how the call ended: "ok", "out_of_range" (std::out_of_range thrown) or  *)
(* "ub" (a member access through a null pointer).  When a call does not    *)
(* end "ok" the returned node is the subtree as the call left it.          *)
(*                                                                         *)
(* The range functions are instantiated with an associative,               *)
(* non-commutative combine: preprocess makes a one-element sequence and    *)
(* combine concatenates.                                                   *)
(***************************************************************************)
EXTENDS Integers, Sequences, FiniteSets, TLC

\* root: the tree; policy: the merger it was built with; last: the call
\* that ran last; live: the number of nodes allocated and not deallocated.
VARIABLES root, policy, last, live

vars == <<root, policy, last, live>>

\* Largest number of nodes the model lets a tree hold.
MaxSize == 7

\* Largest number of nodes when the merger can merge: a merge absorbed by
\* insert_at_index leaves balance factors that no longer describe the shape,
\* and the trees that follow are far more numerous.
MaxMergeSize == 3

\* Elements (and keys) are drawn from 1..MaxVal.
MaxVal == 2

\* Largest number of nodes of a tree that is used through the ordered
\* operations only.
MaxOrderedSize == 5

\* Such a tree's elements (and keys) are drawn from 1..MaxKey.
MaxKey == 4

\* Largest number of nodes of a subtree handed to a rotation directly.
MaxRotSize == 6

Policies == {"no_merge", "merge_if_equal", "merge_count"}

\* The elements a tree with the given merger holds: ints, or (key, count) pairs.
Elements(_merge) ==
  IF _merge = "merge_count" THEN {<<k, 1>> : k \in 1..MaxVal} ELSE 1..MaxVal

\* The elements the caller of the ordered operations passes.
OrderedElements(_merge) ==
  IF _merge = "merge_count" THEN {<<k, 1>> : k \in 1..MaxKey} ELSE 1..MaxKey

\* How many nodes a tree with the given merger may hold.
Capacity(_merge) == IF _merge = "no_merge" THEN MaxSize ELSE MaxMergeSize

\* The comparison a tree with the given merger uses: std::less of its element type.
LessOf(_merge) == IF _merge = "merge_count" THEN "pair_less" ELSE "int_less"

Max(a, b) == IF a >= b THEN a ELSE b

Min(a, b) == IF a <= b THEN a ELSE b

\* Conversion bool -> integer, as in `node->balance -= taller`.
B2I(b) == IF b THEN 1 ELSE 0

----------------------------------------------------------------------------
(* Nodes *)

Null == [kind |-> "null"]

IsNull(node) == node.kind = "null"

\* std::less<int> / std::less<std::pair<int,int>> (lexicographic).
apply_less(_less, a, b) ==
  IF _less = "pair_less"
  THEN a[1] < b[1] \/ (a[1] = b[1] /\ a[2] < b[2])
  ELSE a < b

no_merge(to, from) == [merged |-> FALSE, to |-> to]

\* merge_if_equal with the body of no_merge.
merge_if_equal_never(to, from) == [merged |-> FALSE, to |-> to]

merge_if_equal(to, from) == [merged |-> to = from, to |-> to]

merge_count(to, from) ==
  IF to # from THEN [merged |-> FALSE, to |-> to]
  ELSE [merged |-> TRUE, to |-> <<to[1], to[2] + from[2]>>]

\* _merge(to, from): whether it merged, and the merge target afterwards.
apply_merge(_merge, to, from) ==
  CASE _merge = "no_merge" -> no_merge(to, from)
    [] _merge = "merge_if_equal" -> merge_if_equal(to, from)
    [] _merge = "merge_count" -> merge_count(to, from)

\* Range preprocess: one element to an intermediate.
rpre(value) == <<value>>

\* Range combine: associative, not commutative.
rcomb(a, b) == a \o b

\* The node constructor: a lone node with no children.
avl_node(i_value, i_subrange) ==
  [kind |-> "node", left |-> Null, value |-> i_value, right |-> Null,
   size |-> 1, balance |-> 0, subrange |-> i_subrange]

avl_node_size(node) == IF IsNull(node) THEN 0 ELSE node.size

update(n) ==
  LET size0 == 1
      sub0 == rpre(n.value)
      size1 == IF ~IsNull(n.left) THEN n.left.size + size0 ELSE size0
      sub1 == IF ~IsNull(n.left) THEN rcomb(n.left.subrange, sub0) ELSE sub0
      size2 == IF ~IsNull(n.right) THEN size1 + n.right.size ELSE size1
      sub2 == IF ~IsNull(n.right) THEN rcomb(sub1, n.right.subrange) ELSE sub1
  IN [n EXCEPT !.size = size2, !.subrange = sub2]

----------------------------------------------------------------------------
(* Rotations.  Each returns [node, exc, events]. *)

RotOk(node, events) == [node |-> node, exc |-> "ok", events |-> events]

RotUb(node, events) == [node |-> node, exc |-> "ub", events |-> events]

\* rotate_left with the pivot's balance left out of the demoted node's update.
rotate_left_ignoring_pivot(this) ==
  IF IsNull(this.right) THEN RotUb(this, {})
  ELSE
    LET pivot == this.right
        this1 == [this EXCEPT !.right = pivot.left]
        this2 == [this1 EXCEPT !.balance = @ - 1]
        pbal == pivot.balance - (1 - Min(0, this2.balance))
        this3 == update(this2)
        pivot1 == [pivot EXCEPT !.left = this3, !.balance = pbal]
    IN RotOk(update(pivot1), {"rotate_left"})

rotate_left(this) ==
  IF IsNull(this.right) THEN RotUb(this, {})   \* pivot->left with pivot null
  ELSE
    LET pivot == this.right
        this1 == [this EXCEPT !.right = pivot.left]
        this2 == [this1 EXCEPT !.balance = @ - (1 + Max(0, pivot.balance))]
        pbal == pivot.balance - (1 - Min(0, this2.balance))
        this3 == update(this2)
        pivot1 == [pivot EXCEPT !.left = this3, !.balance = pbal]
    IN RotOk(update(pivot1), {"rotate_left"})

\* rotate_right that updates the new root before the node it demoted.
rotate_right_update_pivot_first(this) ==
  IF IsNull(this.left) THEN RotUb(this, {})
  ELSE
    LET pivot == this.left
        this1 == [this EXCEPT !.left = pivot.right]
        this2 == [this1 EXCEPT !.balance = @ + (1 - Min(0, pivot.balance))]
        pbal == pivot.balance + (1 + Max(0, this2.balance))
        pivot1 == update([pivot EXCEPT !.right = this2, !.balance = pbal])
    IN RotOk([pivot1 EXCEPT !.right = update(this2)], {"rotate_right"})

\* rotate_right that adjusts the pivot's balance by the demoted node's old
\* balance instead of its new one.
rotate_right_old_balance(this) ==
  IF IsNull(this.left) THEN RotUb(this, {})
  ELSE
    LET pivot == this.left
        this1 == [this EXCEPT !.left = pivot.right]
        this2 == [this1 EXCEPT !.balance = @ + (1 - Min(0, pivot.balance))]
        pbal == pivot.balance + (1 + Max(0, this.balance))
        this3 == update(this2)
        pivot1 == [pivot EXCEPT !.right = this3, !.balance = pbal]
    IN RotOk(update(pivot1), {"rotate_right"})

rotate_right(this) ==
  IF IsNull(this.left) THEN RotUb(this, {})   \* pivot->right with pivot null
  ELSE
    LET pivot == this.left
        this1 == [this EXCEPT !.left = pivot.right]
        this2 == [this1 EXCEPT !.balance = @ + (1 - Min(0, pivot.balance))]
        pbal == pivot.balance + (1 + Max(0, this2.balance))
        this3 == update(this2)
        pivot1 == [pivot EXCEPT !.right = this3, !.balance = pbal]
    IN RotOk(update(pivot1), {"rotate_right"})

ensure_not_right_heavy(this) ==
  IF this.balance <= 0 THEN RotOk(this, {}) ELSE rotate_left(this)

ensure_not_left_heavy(this) ==
  IF this.balance >= 0 THEN RotOk(this, {}) ELSE rotate_right(this)

rebalance_right_heavy(this) ==
  LET r == IF ~IsNull(this.right) THEN ensure_not_left_heavy(this.right)
           ELSE RotOk(this.right, {})
      this1 == [this EXCEPT !.right = r.node]
  IN IF r.exc # "ok" THEN RotUb(this1, r.events)
     ELSE LET t == rotate_left(this1)
          IN [t EXCEPT !.events = @ \cup r.events \cup {"rebalance"}]

rebalance_left_heavy(this) ==
  LET l == IF ~IsNull(this.left) THEN ensure_not_right_heavy(this.left)
           ELSE RotOk(this.left, {})
      this1 == [this EXCEPT !.left = l.node]
  IN IF l.exc # "ok" THEN RotUb(this1, l.events)
     ELSE LET t == rotate_right(this1)
          IN [t EXCEPT !.events = @ \cup l.events \cup {"rebalance"}]

----------------------------------------------------------------------------
(* What a helper function hands back to its caller.                        *)
(*   node   the new subtree root (the subtree as left behind, on a throw)  *)
(*   flag   whether the subtree got taller / shorter                       *)
(*   res    the operation's own result: <<>> for none, <<x>> for a value   *)
(*   exc    "ok", "out_of_range" or "ub"                                   *)
(*   allocs, frees   nodes allocated and deallocated by the call           *)
(*   events what the call did on the way: rotations, merges, ...           *)

Frame(node, flag, res, exc, allocs, frees, events) ==
  [node |-> node, flag |-> flag, res |-> res, exc |-> exc,
   allocs |-> allocs, frees |-> frees, events |-> events]

\* The frame of a call that ends by returning (rot.node, flag, res), where rot
\* is what a rebalance returned and partial is what the recursive call returned.
AfterRebalance(rot, flag, res, partial) ==
  Frame(rot.node, IF rot.exc = "ok" THEN flag ELSE FALSE, res, rot.exc,
        partial.allocs, partial.frees, partial.events \cup rot.events)

----------------------------------------------------------------------------
(* Positional get *)

RECURSIVE avl_node_get_at_index(_, _)
avl_node_get_at_index(node, index) ==
  IF IsNull(node) THEN [exc |-> "out_of_range", res |-> <<>>]
  ELSE
    LET left_size == avl_node_size(node.left)
    IN IF index = left_size THEN [exc |-> "ok", res |-> <<node.value>>]
       ELSE IF index < left_size
       THEN avl_node_get_at_index(node.left, index)
       ELSE avl_node_get_at_index(node.left, index - (left_size + 1))

----------------------------------------------------------------------------
(* Insertion *)

\* grow_left that still reports growth after rebalancing.
grow_left_grew_after_rebalance(node, partial, res) ==
  LET node1 == [node EXCEPT !.left = partial.node]
      taller == partial.flag
      node2 == [node1 EXCEPT !.balance = @ - B2I(taller)]
  IN IF partial.exc # "ok"
     THEN Frame(node1, FALSE, <<>>, partial.exc, partial.allocs, partial.frees,
                partial.events)
     ELSE IF ~taller \/ node2.balance = 0
     THEN Frame(update(node2), FALSE, res, "ok", partial.allocs, partial.frees,
                partial.events)
     ELSE IF node2.balance = -1
     THEN Frame(update(node2), TRUE, res, "ok", partial.allocs, partial.frees,
                partial.events)
     ELSE AfterRebalance(rebalance_left_heavy(node2), TRUE, res, partial)

\* The caller's part after the left child took the insert: lines 644-654
\* (and 723-735 with the index).
grow_left(node, partial, res) ==
  LET node1 == [node EXCEPT !.left = partial.node]
      taller == partial.flag
      node2 == [node1 EXCEPT !.balance = @ - B2I(taller)]
  IN IF partial.exc # "ok"
     THEN Frame(node1, FALSE, <<>>, partial.exc, partial.allocs, partial.frees,
                partial.events)
     ELSE IF ~taller \/ node2.balance = 0
     THEN Frame(update(node2), FALSE, res, "ok", partial.allocs, partial.frees,
                partial.events)
     ELSE IF node2.balance = -1
     THEN Frame(update(node2), TRUE, res, "ok", partial.allocs, partial.frees,
                partial.events)
     ELSE AfterRebalance(rebalance_left_heavy(node2), FALSE, res, partial)

\* The caller's part after the right child took the insert: lines 659-669
\* (and 739-751 with the index).
grow_right(node, partial, res) ==
  LET node1 == [node EXCEPT !.right = partial.node]
      taller == partial.flag
      node2 == [node1 EXCEPT !.balance = @ + B2I(taller)]
  IN IF partial.exc # "ok"
     THEN Frame(node1, FALSE, <<>>, partial.exc, partial.allocs, partial.frees,
                partial.events)
     ELSE IF ~taller \/ node2.balance = 0
     THEN Frame(update(node2), FALSE, res, "ok", partial.allocs, partial.frees,
                partial.events)
     ELSE IF node2.balance = 1
     THEN Frame(update(node2), TRUE, res, "ok", partial.allocs, partial.frees,
                partial.events)
     ELSE AfterRebalance(rebalance_right_heavy(node2), FALSE, res, partial)

RECURSIVE avl_node_insert_at_index(_, _, _, _)

\* insert_at_index that goes left only for index < left_size.
insert_at_index_strict(node, index, value, _merge) ==
  IF IsNull(node) THEN
    IF index # 0 THEN Frame(node, FALSE, <<>>, "out_of_range", 0, 0, {})
    ELSE Frame(avl_node(value, rpre(value)), TRUE, <<>>, "ok", 1, 0, {})
  ELSE
    LET m == apply_merge(_merge, node.value, value)
    IN IF m.merged
       THEN Frame([node EXCEPT !.value = m.to], TRUE, <<>>, "ok", 0, 0, {"merge"})
       ELSE
         LET left_size == avl_node_size(node.left)
         IN IF index < left_size
            THEN grow_left(node,
                   avl_node_insert_at_index(node.left, index, value, _merge), <<>>)
            ELSE grow_right(node,
                   avl_node_insert_at_index(node.right,
                     index - (avl_node_size(node.left) + 1), value, _merge), <<>>)

avl_node_insert_at_index(node, index, value, _merge) ==
  IF IsNull(node) THEN
    IF index # 0 THEN Frame(node, FALSE, <<>>, "out_of_range", 0, 0, {})
    ELSE Frame(avl_node(value, rpre(value)), TRUE, <<>>, "ok", 1, 0, {})
  ELSE
    LET m == apply_merge(_merge, node.value, value)
    IN IF m.merged
       THEN Frame([node EXCEPT !.value = m.to], TRUE, <<>>, "ok", 0, 0, {"merge"})
       ELSE
         LET left_size == avl_node_size(node.left)
         IN IF index <= left_size
            THEN grow_left(node,
                   avl_node_insert_at_index(node.left, index, value, _merge), <<>>)
            ELSE grow_right(node,
                   avl_node_insert_at_index(node.right,
                     index - (avl_node_size(node.left) + 1), value, _merge), <<>>)

RECURSIVE avl_node_insert_ordered(_, _, _, _)

\* insert_ordered that goes left only for value < node.value, so that the
\* new element lands after the elements equal to it.
insert_ordered_after_equal(node, value, _less, _merge) ==
  IF IsNull(node)
  THEN Frame(avl_node(value, rpre(value)), TRUE, <<0>>, "ok", 1, 0, {})
  ELSE
    LET m == apply_merge(_merge, node.value, value)
    IN IF m.merged
       THEN Frame([node EXCEPT !.value = m.to], FALSE, <<0>>, "ok", 0, 0, {"merge"})
       ELSE IF apply_less(_less, value, node.value)
       THEN LET partial == avl_node_insert_ordered(node.left, value, _less, _merge)
            IN grow_left(node, partial, partial.res)
       ELSE LET partial == avl_node_insert_ordered(node.right, value, _less, _merge)
                index == avl_node_size(node.left) + 1 + partial.res[1]
            IN grow_right(node, partial, <<index>>)

avl_node_insert_ordered(node, value, _less, _merge) ==
  IF IsNull(node)
  THEN Frame(avl_node(value, rpre(value)), TRUE, <<0>>, "ok", 1, 0, {})
  ELSE
    LET m == apply_merge(_merge, node.value, value)
    IN IF m.merged
       THEN Frame([node EXCEPT !.value = m.to], FALSE, <<0>>, "ok", 0, 0, {"merge"})
       ELSE IF ~apply_less(_less, node.value, value)
       THEN LET partial == avl_node_insert_ordered(node.left, value, _less, _merge)
            IN grow_left(node, partial, partial.res)
       ELSE LET partial == avl_node_insert_ordered(node.right, value, _less, _merge)
                index == avl_node_size(node.left) + 1 + partial.res[1]
            IN grow_right(node, partial, <<index>>)

----------------------------------------------------------------------------
(* Removal *)

\* shrink_left that reports a shorter subtree after every rebalance.
shrink_left_shrank_after_rebalance(node, partial, res) ==
  LET node1 == [node EXCEPT !.left = partial.node]
      shorter == partial.flag
      node2 == [node1 EXCEPT !.balance = @ + B2I(shorter)]
  IN IF partial.exc # "ok"
     THEN Frame(node1, FALSE, <<>>, partial.exc, partial.allocs, partial.frees,
                partial.events)
     ELSE IF ~shorter \/ node2.balance = 1
     THEN Frame(update(node2), FALSE, res, "ok", partial.allocs, partial.frees,
                partial.events)
     ELSE IF node2.balance = 0
     THEN Frame(update(node2), TRUE, res, "ok", partial.allocs, partial.frees,
                partial.events)
     ELSE AfterRebalance(rebalance_right_heavy(node2), TRUE, res, partial)

\* The caller's part after the left child gave up an element: lines 823-836
\* (and 939-956).
shrink_left(node, partial, res) ==
  LET node1 == [node EXCEPT !.left = partial.node]
      shorter == partial.flag
      node2 == [node1 EXCEPT !.balance = @ + B2I(shorter)]
  IN IF partial.exc # "ok"
     THEN Frame(node1, FALSE, <<>>, partial.exc, partial.allocs, partial.frees,
                partial.events)
     ELSE IF ~shorter \/ node2.balance = 1
     THEN Frame(update(node2), FALSE, res, "ok", partial.allocs, partial.frees,
                partial.events)
     ELSE IF node2.balance = 0
     THEN Frame(update(node2), TRUE, res, "ok", partial.allocs, partial.frees,
                partial.events)
     ELSE LET rot == rebalance_right_heavy(node2)
          IN AfterRebalance(rot, rot.node.balance = 0, res, partial)

\* shrink_right with the balance adjusted before the recursive call, so that
\* a throw from below finds it already changed.
shrink_right_adjust_first(node, partial, res) ==
  LET node1 == [node EXCEPT !.right = partial.node]
      shorter == partial.flag
      node2 == [node1 EXCEPT !.balance = @ - B2I(shorter)]
  IN IF partial.exc # "ok"
     THEN Frame([node1 EXCEPT !.balance = @ - 1], FALSE, <<>>, partial.exc,
                partial.allocs, partial.frees, partial.events)
     ELSE IF ~shorter \/ node2.balance = -1
     THEN Frame(update(node2), FALSE, res, "ok", partial.allocs, partial.frees,
                partial.events)
     ELSE IF node2.balance = 0
     THEN Frame(update(node2), TRUE, res, "ok", partial.allocs, partial.frees,
                partial.events)
     ELSE LET rot == rebalance_left_heavy(node2)
          IN AfterRebalance(rot, rot.node.balance = 0, res, partial)

\* The caller's part after the right child gave up an element: lines 841-854
\* (and 805-818, 921-934, 968-979).
shrink_right(node, partial, res) ==
  LET node1 == [node EXCEPT !.right = partial.node]
      shorter == partial.flag
      node2 == [node1 EXCEPT !.balance = @ - B2I(shorter)]
  IN IF partial.exc # "ok"
     THEN Frame(node1, FALSE, <<>>, partial.exc, partial.allocs, partial.frees,
                partial.events)
     ELSE IF ~shorter \/ node2.balance = -1
     THEN Frame(update(node2), FALSE, res, "ok", partial.allocs, partial.frees,
                partial.events)
     ELSE IF node2.balance = 0
     THEN Frame(update(node2), TRUE, res, "ok", partial.allocs, partial.frees,
                partial.events)
     ELSE LET rot == rebalance_left_heavy(node2)
          IN AfterRebalance(rot, rot.node.balance = 0, res, partial)

\* delete_this_node that leaves the victim's own element in the node
\* instead of the successor's.
delete_this_node_keeping_value(node, res, partial) ==
  IF IsNull(node.left) /\ IsNull(node.right)
  THEN Frame(Null, TRUE, res, "ok", 0, 1, {"leaf"})
  ELSE IF IsNull(node.left)
  THEN Frame(node.right, TRUE, res, "ok", 0, 1, {"one_child"})
  ELSE IF IsNull(node.right)
  THEN Frame(node.left, TRUE, res, "ok", 0, 1, {"one_child"})
  ELSE shrink_right(node, partial, res)

\* delete_this_node that unlinks a leaf without deallocating it.
delete_this_node_without_free(node, res, partial) ==
  IF IsNull(node.left) /\ IsNull(node.right)
  THEN Frame(Null, TRUE, res, "ok", 0, 0, {"leaf"})
  ELSE IF IsNull(node.left)
  THEN Frame(node.right, TRUE, res, "ok", 0, 1, {"one_child"})
  ELSE IF IsNull(node.right)
  THEN Frame(node.left, TRUE, res, "ok", 0, 1, {"one_child"})
  ELSE IF partial.exc # "ok"
  THEN shrink_right(node, partial, res)
  ELSE shrink_right([node EXCEPT !.value = partial.res[1]],
                    [partial EXCEPT !.events = @ \cup {"two_children"}], res)

\* "we must delete this node", given what removing the in-order successor
\* from the right subtree returned (used when both children exist): lines
\* 785-818 (and 900-934).
delete_this_node(node, res, partial) ==
  IF IsNull(node.left) /\ IsNull(node.right)
  THEN Frame(Null, TRUE, res, "ok", 0, 1, {"leaf"})
  ELSE IF IsNull(node.left)
  THEN Frame(node.right, TRUE, res, "ok", 0, 1, {"one_child"})
  ELSE IF IsNull(node.right)
  THEN Frame(node.left, TRUE, res, "ok", 0, 1, {"one_child"})
  ELSE IF partial.exc # "ok"
  THEN shrink_right(node, partial, res)
  ELSE shrink_right([node EXCEPT !.value = partial.res[1]],
                    [partial EXCEPT !.events = @ \cup {"two_children"}], res)

RECURSIVE avl_node_remove_at_index(_, _)

\* remove_at_index that goes right with index - left_size.
remove_at_index_no_offset(node, index) ==
  IF IsNull(node) THEN Frame(node, FALSE, <<>>, "out_of_range", 0, 0, {})
  ELSE
    LET left_size == avl_node_size(node.left)
    IN IF index = left_size
       THEN delete_this_node(node, <<node.value>>,
                             avl_node_remove_at_index(node.right, 0))
       ELSE IF index < left_size
       THEN LET partial == avl_node_remove_at_index(node.left, index)
            IN shrink_left(node, partial, partial.res)
       ELSE LET partial == avl_node_remove_at_index(node.right,
                                                    index - left_size)
            IN shrink_right(node, partial, partial.res)

avl_node_remove_at_index(node, index) ==
  IF IsNull(node) THEN Frame(node, FALSE, <<>>, "out_of_range", 0, 0, {})
  ELSE
    LET left_size == avl_node_size(node.left)
    IN IF index = left_size
       THEN delete_this_node(node, <<node.value>>,
                             avl_node_remove_at_index(node.right, 0))
       ELSE IF index < left_size
       THEN LET partial == avl_node_remove_at_index(node.left, index)
            IN shrink_left(node, partial, partial.res)
       ELSE LET partial == avl_node_remove_at_index(node.right,
                                                    index - (left_size + 1))
            IN shrink_right(node, partial, partial.res)

RECURSIVE avl_node_remove_ordered(_, _, _)

\* remove_ordered that reports, from the right, the child's index as its own.
remove_ordered_no_offset(node, value, _less) ==
  IF IsNull(node) THEN Frame(node, FALSE, <<>>, "ok", 0, 0, {})
  ELSE IF node.value = value
  THEN delete_this_node(node, <<avl_node_size(node.left)>>,
                        avl_node_remove_at_index(node.right, 0))
  ELSE IF apply_less(_less, value, node.value)
  THEN LET partial == avl_node_remove_ordered(node.left, value, _less)
           node1 == [node EXCEPT !.left = partial.node]
       IN IF partial.exc = "ok" /\ partial.res = <<>>
          THEN Frame(node1, FALSE, <<>>, "ok", partial.allocs, partial.frees,
                     partial.events)
          ELSE shrink_left(node, partial, partial.res)
  ELSE LET partial == avl_node_remove_ordered(node.right, value, _less)
           node1 == [node EXCEPT !.right = partial.node]
       IN IF partial.exc = "ok" /\ partial.res = <<>>
          THEN Frame(node1, FALSE, <<>>, "ok", partial.allocs, partial.frees,
                     partial.events)
          ELSE shrink_right(node, partial, partial.res)

\* remove_ordered whose index starts out as 0 instead of empty.
remove_ordered_index_zero(node, value, _less) ==
  IF IsNull(node) THEN Frame(node, FALSE, <<0>>, "ok", 0, 0, {})
  ELSE IF node.value = value
  THEN delete_this_node(node, <<avl_node_size(node.left)>>,
                        avl_node_remove_at_index(node.right, 0))
  ELSE IF apply_less(_less, value, node.value)
  THEN LET partial == avl_node_remove_ordered(node.left, value, _less)
       IN shrink_left(node, partial, partial.res)
  ELSE LET partial == avl_node_remove_ordered(node.right, value, _less)
           index == avl_node_size(node.left) + 1 + partial.res[1]
       IN shrink_right(node, partial, <<index>>)

avl_node_remove_ordered(node, value, _less) ==
  IF IsNull(node) THEN Frame(node, FALSE, <<>>, "ok", 0, 0, {})
  ELSE IF node.value = value
  THEN delete_this_node(node, <<avl_node_size(node.left)>>,
                        avl_node_remove_at_index(node.right, 0))
  ELSE IF apply_less(_less, value, node.value)
  THEN LET partial == avl_node_remove_ordered(node.left, value, _less)
           node1 == [node EXCEPT !.left = partial.node]
       IN IF partial.exc = "ok" /\ partial.res = <<>>
          THEN Frame(node1, FALSE, <<>>, "ok", partial.allocs, partial.frees,
                     partial.events)
          ELSE shrink_left(node, partial, partial.res)
  ELSE LET partial == avl_node_remove_ordered(node.right, value, _less)
           node1 == [node EXCEPT !.right = partial.node]
           index == avl_node_size(node.left) + 1 + partial.res[1]
       IN IF partial.exc = "ok" /\ partial.res = <<>>
          THEN Frame(node1, FALSE, <<>>, "ok", partial.allocs, partial.frees,
                     partial.events)
          ELSE shrink_right(node, partial, <<index>>)

----------------------------------------------------------------------------
(* Replacement *)

\* The end of replace_at_index, once both calls returned: lines 1013-1016.
replace_at_index_result(old_size, remove_result, insert_result) ==
  Frame(insert_result.node,
        IF insert_result.exc = "ok"
        THEN old_size # avl_node_size(insert_result.node) ELSE FALSE,
        <<>>, insert_result.exc,
        remove_result.allocs + insert_result.allocs,
        remove_result.frees + insert_result.frees,
        remove_result.events \cup insert_result.events)

\* replace_at_index from the removal's return on: lines 1011-1012.
replace_at_index_insert(old_size, remove_result, index, new_value, _merge) ==
  IF remove_result.exc # "ok" THEN remove_result
  ELSE replace_at_index_result(old_size, remove_result,
         avl_node_insert_at_index(remove_result.node, index, new_value, _merge))

avl_node_replace_at_index(node, index, new_value, _merge) ==
  replace_at_index_insert(avl_node_size(node),
                          avl_node_remove_at_index(node, index),
                          index, new_value, _merge)

\* The end of replace_ordered without the correction of the removal index.
replace_ordered_result_uncorrected(old_size, remove_result, insert_result) ==
  IF insert_result.exc # "ok"
  THEN Frame(insert_result.node, FALSE, <<>>, insert_result.exc,
             remove_result.allocs + insert_result.allocs,
             remove_result.frees + insert_result.frees,
             remove_result.events \cup insert_result.events)
  ELSE Frame(insert_result.node, old_size # avl_node_size(insert_result.node),
             <<remove_result.res[1], insert_result.res[1]>>, "ok",
             remove_result.allocs + insert_result.allocs,
             remove_result.frees + insert_result.frees,
             remove_result.events \cup insert_result.events)

\* The end of replace_ordered that corrects the removal index only when the
\* insertion index is strictly smaller.
replace_ordered_result_strict(old_size, remove_result, insert_result) ==
  IF insert_result.exc # "ok"
  THEN Frame(insert_result.node, FALSE, <<>>, insert_result.exc,
             remove_result.allocs + insert_result.allocs,
             remove_result.frees + insert_result.frees,
             remove_result.events \cup insert_result.events)
  ELSE Frame(insert_result.node, old_size # avl_node_size(insert_result.node),
             <<remove_result.res[1]
                 + B2I(insert_result.res[1] < remove_result.res[1]
                       /\ old_size = avl_node_size(insert_result.node)),
               insert_result.res[1]>>, "ok",
             remove_result.allocs + insert_result.allocs,
             remove_result.frees + insert_result.frees,
             remove_result.events \cup insert_result.events)

\* The end of replace_ordered, once both calls returned: lines 1071-1078.
replace_ordered_result(old_size, remove_result, insert_result) ==
  LET did_merge == old_size # avl_node_size(insert_result.node)
      remove_index == remove_result.res[1]
      insert_index == insert_result.res[1]
      corrected_remove_index ==
        remove_index + B2I(insert_index <= remove_index /\ ~did_merge)
  IN IF insert_result.exc # "ok"
     THEN Frame(insert_result.node, FALSE, <<>>, insert_result.exc,
                remove_result.allocs + insert_result.allocs,
                remove_result.frees + insert_result.frees,
                remove_result.events \cup insert_result.events)
     ELSE Frame(insert_result.node, did_merge,
                <<corrected_remove_index, insert_index>>, "ok",
                remove_result.allocs + insert_result.allocs,
                remove_result.frees + insert_result.frees,
                remove_result.events \cup insert_result.events)

\* replace_ordered that inserts the new value even when the old one was not
\* found.
replace_ordered_insert_unconditional(old_size, remove_result, new_value, _less, _merge) ==
  IF remove_result.exc # "ok" THEN remove_result
  ELSE IF remove_result.res = <<>>
  THEN Frame(avl_node_insert_ordered(remove_result.node, new_value, _less, _merge).node,
             FALSE, <<>>, "ok", remove_result.allocs, remove_result.frees,
             remove_result.events)
  ELSE replace_ordered_result(old_size, remove_result,
         avl_node_insert_ordered(remove_result.node, new_value, _less, _merge))

\* replace_ordered from the removal's return on: lines 1063-1070.
replace_ordered_insert(old_size, remove_result, new_value, _less, _merge) ==
  IF remove_result.exc # "ok" THEN remove_result
  ELSE IF remove_result.res = <<>>
  THEN Frame(remove_result.node, FALSE, <<>>, "ok", remove_result.allocs,
             remove_result.frees, remove_result.events)
  ELSE replace_ordered_result(old_size, remove_result,
         avl_node_insert_ordered(remove_result.node, new_value, _less, _merge))

avl_node_replace_ordered(node, old_value, new_value, _less, _merge) ==
  replace_ordered_insert(avl_node_size(node),
                         avl_node_remove_ordered(node, old_value, _less),
                         new_value, _less, _merge)

----------------------------------------------------------------------------
(* The tree behind the helper functions: one root, one merger, and what    *)
(* the last call was given and returned.                                   *)

\* The number of nodes of a subtree, counted.
RECURSIVE Count(_)
Count(node) == IF IsNull(node) THEN 0 ELSE Count(node.left) + 1 + Count(node.right)

\* The operation that ran last: its name and arguments, the tree it was
\* applied to, and the frame it returned.
Call(op, args, pre, r) ==
  [op |-> op, args |-> args, pre |-> pre, flag |-> r.flag, res |-> r.res,
   exc |-> r.exc, allocs |-> r.allocs, frees |-> r.frees, events |-> r.events]

NoCall ==
  [op |-> "none", args |-> <<>>, pre |-> Null, flag |-> FALSE, res |-> <<>>,
   exc |-> "ok", allocs |-> 0, frees |-> 0, events |-> {}]

\* Indices a caller may pass: every valid one and the nearest invalid ones.
Indices == -1 .. (Count(root) + 1)

\* No call is in progress and none has run into undefined behaviour: the
\* caller may start the next one.
Running == last.op = "none"

\* A call of a mutating helper on the root: the root becomes what it returned.
Apply(op, args, r) ==
  /\ root' = r.node
  /\ last' = Call(op, args, root, r)
  /\ live' = live + r.allocs - r.frees

Init == root = Null /\ policy = "no_merge" /\ last = NoCall /\ live = 0

InitMerge ==
  root = Null /\ policy \in Policies /\ last = NoCall /\ live = 0

\* get_at_index hands back an element and changes nothing.
get_frame(node, r) == Frame(node, FALSE, r.res, r.exc, 0, 0, {})

GetAt ==
  /\ Running
  /\ \E index \in Indices :
       Apply("get_at", <<index>>, get_frame(root, avl_node_get_at_index(root, index)))
  /\ UNCHANGED policy

InsertAt ==
  /\ Running
  /\ Count(root) < Capacity(policy)
  /\ \E index \in Indices, value \in Elements(policy) :
       Apply("insert_at", <<index, value>>,
             avl_node_insert_at_index(root, index, value, policy))
  /\ UNCHANGED policy

InsertOrdered ==
  /\ Running
  /\ Count(root) < Capacity(policy)
  /\ \E value \in Elements(policy) :
       Apply("insert_ordered", <<value>>,
             avl_node_insert_ordered(root, value, LessOf(policy), policy))
  /\ UNCHANGED policy

RemoveAt ==
  /\ Running
  /\ \E index \in Indices :
       Apply("remove_at", <<index>>,
             avl_node_remove_at_index(root, index))
  /\ UNCHANGED policy

RemoveOrdered ==
  /\ Running
  /\ \E value \in Elements(policy) :
       Apply("remove_ordered", <<value>>,
             avl_node_remove_ordered(root, value, LessOf(policy)))
  /\ UNCHANGED policy

ReplaceAt ==
  /\ Running
  /\ \E index \in Indices, new_value \in Elements(policy) :
       Apply("replace_at", <<index, new_value>>,
             avl_node_replace_at_index(root, index, new_value, policy))
  /\ UNCHANGED policy

ReplaceOrdered ==
  /\ Running
  /\ \E old_value \in Elements(policy), new_value \in Elements(policy) :
       Apply("replace_ordered", <<old_value, new_value>>,
             avl_node_replace_ordered(root, old_value, new_value, LessOf(policy), policy))
  /\ UNCHANGED policy

\* The caller takes the result of the call; the tree is quiescent again.
\* After undefined behaviour there is no caller to return to.
Return ==
  /\ last.op # "none"
  /\ last.exc # "ub"
  /\ last' = NoCall
  /\ UNCHANGED <<root, policy, live>>

Next ==
  \/ Return
  \/ GetAt
  \/ InsertAt
  \/ InsertOrdered
  \/ RemoveAt
  \/ RemoveOrdered
  \/ ReplaceAt
  \/ ReplaceOrdered

\* The tree with the default merger (never merge).
Spec == Init /\ [][Next]_vars

\* The tree with any of the three standard mergers.
SpecMerge == InitMerge /\ [][Next]_vars

\* A tree kept sorted: the caller uses the ordered operations only.
OrderedInsert ==
  /\ Running
  /\ Count(root) < MaxOrderedSize
  /\ \E value \in OrderedElements(policy) :
       Apply("insert_ordered", <<value>>,
             avl_node_insert_ordered(root, value, LessOf(policy), policy))
  /\ UNCHANGED policy

OrderedRemove ==
  /\ Running
  /\ \E value \in OrderedElements(policy) :
       Apply("remove_ordered", <<value>>,
             avl_node_remove_ordered(root, value, LessOf(policy)))
  /\ UNCHANGED policy

OrderedReplace ==
  /\ Running
  /\ \E old_value \in OrderedElements(policy), new_value \in OrderedElements(policy) :
       Apply("replace_ordered", <<old_value, new_value>>,
             avl_node_replace_ordered(root, old_value, new_value, LessOf(policy), policy))
  /\ UNCHANGED policy

NextOrdered ==
  \/ Return
  \/ OrderedInsert
  \/ OrderedRemove
  \/ OrderedReplace

\* The sorted tree with any of the three standard mergers.
SpecOrdered == InitMerge /\ [][NextOrdered]_vars

----------------------------------------------------------------------------
(* What the properties are stated with: the tree as it is, measured.       *)

RECURSIVE Height(_)
Height(node) ==
  IF IsNull(node) THEN 0 ELSE 1 + Max(Height(node.left), Height(node.right))

\* The in-order traversal: the elements from left to right.
RECURSIVE InOrder(_)
InOrder(node) ==
  IF IsNull(node) THEN <<>>
  ELSE InOrder(node.left) \o <<node.value>> \o InOrder(node.right)

\* Every node of a subtree (each with its own subtree).
RECURSIVE NodesOf(_)
NodesOf(node) ==
  IF IsNull(node) THEN {}
  ELSE {node} \cup NodesOf(node.left) \cup NodesOf(node.right)

\* The left-to-right fold of preprocess over a sequence of elements.
RECURSIVE Fold(_)
Fold(seq) ==
  IF Len(seq) = 1 THEN rpre(seq[1])
  ELSE rcomb(Fold(SubSeq(seq, 1, Len(seq) - 1)), rpre(seq[Len(seq)]))

\* seq with v put at 0-based position i / with 0-based position i taken out.
InsertSeq(seq, i, v) == SubSeq(seq, 1, i) \o <<v>> \o SubSeq(seq, i + 1, Len(seq))

RemoveSeq(seq, i) == SubSeq(seq, 1, i) \o SubSeq(seq, i + 2, Len(seq))

\* Non-decreasing under less.
Sorted(seq, _less) ==
  \A j \in 1..(Len(seq) - 1) : ~apply_less(_less, seq[j + 1], seq[j])

Occurs(seq, v) == \E j \in 1..Len(seq) : seq[j] = v

\* How many elements of seq are strictly less than v.
CountLess(seq, v, _less) ==
  Cardinality({j \in 1..Len(seq) : apply_less(_less, seq[j], v)})

\* Whether the search of remove_ordered for v meets an element equal to v.
RECURSIVE PathHits(_, _, _)
PathHits(node, v, _less) ==
  IF IsNull(node) THEN FALSE
  ELSE IF node.value = v THEN TRUE
  ELSE IF apply_less(_less, v, node.value) THEN PathHits(node.left, v, _less)
  ELSE PathHits(node.right, v, _less)

BalanceOK(node) ==
  \A n \in NodesOf(node) :
    /\ n.balance \in {-1, 0, 1}
    /\ n.balance = Height(n.right) - Height(n.left)

SizeOK(node) ==
  /\ \A n \in NodesOf(node) :
       n.size = 1 + avl_node_size(n.left) + avl_node_size(n.right)
  /\ avl_node_size(node) = Count(node)

SubrangeOf(node) == IF IsNull(node) THEN <<>> ELSE node.subrange

AggregateOK(node) ==
  /\ \A n \in NodesOf(node) :
       n.subrange =
         IF IsNull(n.left) /\ IsNull(n.right) THEN rpre(n.value)
         ELSE IF IsNull(n.left) THEN rcomb(rpre(n.value), n.right.subrange)
         ELSE IF IsNull(n.right) THEN rcomb(n.left.subrange, rpre(n.value))
         ELSE rcomb(rcomb(n.left.subrange, rpre(n.value)), n.right.subrange)
  /\ ~IsNull(node) => node.subrange = Fold(InOrder(node))

\* The last call ran to its end: it returned or threw, and did not run into
\* undefined behaviour.
Defined == last.exc # "ub"

PreSeq == InOrder(last.pre)

----------------------------------------------------------------------------
(* Properties *)

\* C1: with the never-merge policy, after any sequence of inserts, removes
\* and replaces from the empty tree, every node has |balance| <= 1 and its
\* stored balance is height(right) - height(left).
C1_BalanceInvariant == Defined /\ BalanceOK(root)

\* C1 witness: a removal in a tree of height 4 that was rebalanced with a
\* double rotation.
C1_Witness ==
  /\ last.op = "remove_at" /\ last.exc = "ok"
  /\ {"rebalance", "rotate_left", "rotate_right"} \subseteq last.events
  /\ Height(last.pre) = 4
  /\ BalanceOK(root)

\* C2: after any sequence of operations, with any merge policy, every node's
\* stored size is 1 + size(left) + size(right), and the root's size is the
\* number of nodes.
C2_SizeInvariant == Defined /\ SizeOK(root)

\* C3: with the never-merge policy and a non-commutative combine, every
\* node's cached subrange is combine(combine(left.subrange,
\* preprocess(value)), right.subrange), absent children omitted, and the
\* root's is the left-to-right fold of preprocess over the traversal.
C3_AggregateInvariant == Defined /\ AggregateOK(root)

\* C3 witness: an ordered insert that rotated twice, leaving an aggregate
\* that reads differently from right to left.
C3_Witness ==
  /\ last.op = "insert_ordered"
  /\ {"rotate_left", "rotate_right"} \subseteq last.events
  /\ Len(SubrangeOf(root)) >= 5
  /\ root.subrange[1] # root.subrange[Len(root.subrange)]
  /\ AggregateOK(root)

\* C4: get_at(i), for i in [0, size), returns the i-th element of the
\* in-order traversal.
C4_GetAtReturnsIth ==
  (last.op = "get_at" /\ last.args[1] \in 0..(Len(PreSeq) - 1))
    => (last.exc = "ok" /\ last.res = <<PreSeq[last.args[1] + 1]>>)

\* C5: insert_at(i, v), for i in [0, size] and never-merge, puts v at
\* position i of the traversal, directly before the element that was at i,
\* and the size grows by one.
C5_InsertAt ==
  (last.op = "insert_at" /\ last.args[1] \in 0..Len(PreSeq))
    => /\ last.exc = "ok"
       /\ InOrder(root) = InsertSeq(PreSeq, last.args[1], last.args[2])
       /\ avl_node_size(root) = avl_node_size(last.pre) + 1

\* C5 witness: an insert in the middle of at least four elements that
\* made the tree rebalance.
C5_Witness ==
  /\ last.op = "insert_at" /\ last.exc = "ok"
  /\ Len(PreSeq) >= 4
  /\ last.args[1] \in 1..(Len(PreSeq) - 1)
  /\ "rebalance" \in last.events
  /\ PreSeq[last.args[1] + 1] # last.args[2]
  /\ InOrder(root) = InsertSeq(PreSeq, last.args[1], last.args[2])

\* C6: remove_at(i), for i in [0, size), returns the element at position i
\* and leaves the traversal with exactly that position deleted and the size
\* one less, also when the victim has two children.
C6_RemoveAt ==
  (last.op = "remove_at" /\ last.args[1] \in 0..(Len(PreSeq) - 1))
    => /\ last.exc = "ok"
       /\ last.res = <<PreSeq[last.args[1] + 1]>>
       /\ InOrder(root) = RemoveSeq(PreSeq, last.args[1])
       /\ avl_node_size(root) = avl_node_size(last.pre) - 1

\* C6 witness: the victim had two children, its successor took its place,
\* and the tree was rebalanced.
C6_Witness ==
  /\ last.op = "remove_at" /\ last.exc = "ok"
  /\ {"two_children", "rebalance"} \subseteq last.events
  /\ last.res = <<PreSeq[last.args[1] + 1]>>
  /\ InOrder(root) = RemoveSeq(PreSeq, last.args[1])
  /\ Occurs(InOrder(root), 1) /\ Occurs(InOrder(root), 2)

\* C7: insert_ordered(v) into a non-decreasing tree, never-merge, leaves a
\* non-decreasing traversal that is the old one plus one v; the index
\* returned is the number of elements strictly less than v, and v sits there.
C7_InsertOrdered ==
  (last.op = "insert_ordered" /\ Sorted(PreSeq, LessOf(policy)))
    => /\ last.exc = "ok"
       /\ last.res = <<CountLess(PreSeq, last.args[1], LessOf(policy))>>
       /\ InOrder(root) = InsertSeq(PreSeq, last.res[1], last.args[1])
       /\ Sorted(InOrder(root), LessOf(policy))

\* C7 witness: v goes before elements equal to it and after smaller ones.
C7_Witness ==
  /\ last.op = "insert_ordered" /\ Sorted(PreSeq, LessOf(policy))
  /\ Len(PreSeq) >= 4
  /\ Occurs(PreSeq, last.args[1])
  /\ last.res = <<CountLess(PreSeq, last.args[1], LessOf(policy))>>
  /\ last.res[1] > 0
  /\ InOrder(root) = InsertSeq(PreSeq, last.res[1], last.args[1])

\* C8: remove_ordered(v) on a non-decreasing tree that holds v returns
\* some(i) where position i held v, and leaves the traversal with exactly
\* position i deleted: still non-decreasing, one element fewer.
C8_RemoveOrdered ==
  (/\ last.op = "remove_ordered"
   /\ Sorted(PreSeq, LessOf(policy))
   /\ Occurs(PreSeq, last.args[1]))
    => /\ last.exc = "ok"
       /\ Len(last.res) = 1
       /\ last.res[1] \in 0..(Len(PreSeq) - 1)
       /\ PreSeq[last.res[1] + 1] = last.args[1]
       /\ InOrder(root) = RemoveSeq(PreSeq, last.res[1])
       /\ Sorted(InOrder(root), LessOf(policy))
       /\ avl_node_size(root) = avl_node_size(last.pre) - 1

\* C8 witness: v found below the root, to the right, in a tree with both
\* values; the victim had two children.
C8_Witness ==
  /\ last.op = "remove_ordered"
  /\ Sorted(PreSeq, LessOf(policy))
  /\ Occurs(PreSeq, 1) /\ Occurs(PreSeq, 2)
  /\ last.pre.value # last.args[1]
  /\ "two_children" \in last.events
  /\ Len(last.res) = 1 /\ last.res[1] > avl_node_size(last.pre.left)
  /\ InOrder(root) = RemoveSeq(PreSeq, last.res[1])

\* C9: when no element on the search path equals v, remove_ordered(v)
\* reports no index and shrank = false, raises no error, and leaves every
\* node as it was.
C9_RemoveOrderedAbsent ==
  (last.op = "remove_ordered" /\ ~PathHits(last.pre, last.args[1], LessOf(policy)))
    => /\ last.exc = "ok"
       /\ last.res = <<>>
       /\ last.flag = FALSE
       /\ root = last.pre
       /\ last.allocs = 0 /\ last.frees = 0

\* C9 witness: a sorted tree of three or more elements without v.
C9_Witness ==
  /\ last.op = "remove_ordered"
  /\ Len(PreSeq) >= 3
  /\ Sorted(PreSeq, LessOf(policy))
  /\ ~Occurs(PreSeq, last.args[1])
  /\ last.res = <<>> /\ root = last.pre

\* C10: remove_at(i) and replace_at(i, v) with i outside [0, size) fail with
\* OutOfRange and leave the tree exactly as it was, no node allocated or
\* freed.
C10_OutOfRangeUntouched ==
  (/\ last.op \in {"remove_at", "replace_at"}
   /\ last.args[1] \notin 0..(avl_node_size(last.pre) - 1))
    => /\ last.exc = "out_of_range"
       /\ root = last.pre
       /\ last.allocs = 0 /\ last.frees = 0

\* C10 witness: replace_at at index size on a tree of three or more nodes.
C10_Witness ==
  /\ last.op = "replace_at"
  /\ Count(last.pre) >= 3
  /\ last.args[1] = avl_node_size(last.pre)
  /\ last.exc = "out_of_range" /\ root = last.pre

\* seq with 0-based position i holding v instead.
ReplaceSeq(seq, i, v) == [j \in 1..Len(seq) |-> IF j = i + 1 THEN v ELSE seq[j]]

\* The last call's insertion was absorbed by the merger.
Merged == "merge" \in last.events

\* C11: insert_at(i, v) with i outside [0, size] fails with OutOfRange and
\* leaves the tree unchanged, whatever the merger and the tree contents.
C11_InsertAtOutOfRange ==
  (/\ last.op = "insert_at"
   /\ last.args[1] \notin 0..avl_node_size(last.pre))
    => /\ last.exc = "out_of_range"
       /\ root = last.pre

\* C12: get_at(i) fails with OutOfRange for every i outside [0, size) and
\* for no i inside [0, size).
C12_GetAtOutOfRange ==
  last.op = "get_at"
    => (last.exc = "out_of_range"
          <=> last.args[1] \notin 0..(avl_node_size(last.pre) - 1))

\* C13: replace_at(i, v), for i in [0, size), reports merged = true exactly
\* when the reinsertion of v was absorbed by merge, and then the size is one
\* less; otherwise merged = false, the size is unchanged and, with
\* never-merge, the traversal is the old one with position i holding v.
C13_ReplaceAtMerged ==
  (/\ last.op = "replace_at"
   /\ last.args[1] \in 0..(avl_node_size(last.pre) - 1))
    => /\ last.exc = "ok"
       /\ last.flag = Merged
       /\ avl_node_size(root) = avl_node_size(last.pre) - B2I(Merged)
       /\ policy = "no_merge"
            => InOrder(root) = ReplaceSeq(PreSeq, last.args[1], last.args[2])

\* C14: when replace_ordered(old, new) finds no element equal to old it
\* reports no index pair and merged = false, does not insert new, and leaves
\* the tree as it was.
C14_ReplaceOrderedAbsent ==
  (/\ last.op = "replace_ordered"
   /\ ~PathHits(last.pre, last.args[1], LessOf(policy)))
    => /\ last.exc = "ok"
       /\ last.res = <<>>
       /\ last.flag = FALSE
       /\ root = last.pre
       /\ last.allocs = 0 /\ last.frees = 0

\* C14 witness: a tree of two or more elements holding neither old nor new.
C14_Witness ==
  /\ last.op = "replace_ordered"
  /\ Len(PreSeq) >= 2
  /\ ~Occurs(PreSeq, last.args[1])
  /\ ~Occurs(PreSeq, last.args[2])
  /\ last.args[1] # last.args[2]
  /\ last.res = <<>> /\ root = last.pre

\* The case of scenario S3: a never-merge tree holding one element, which
\* replace_ordered replaces by a greater one (150 by 350 in the scenario; the
\* code looks at nothing but the order of the two).
ScenarioS3 ==
  /\ last.op = "replace_ordered"
  /\ policy = "no_merge"
  /\ Len(PreSeq) = 1
  /\ last.args[1] = PreSeq[1]
  /\ apply_less(LessOf(policy), last.args[1], last.args[2])

\* C15: scenario S3: on the one-element sorted tree [150], never-merge,
\* replace_ordered(150, 350) reports some((0, 0)), after which get_at(0) is
\* 350 and the size is 1.
C15_ScenarioS3 ==
  ScenarioS3
    => /\ last.exc = "ok"
       /\ last.res = <<0, 0>>
       /\ avl_node_get_at_index(root, 0).res = <<last.args[2]>>
       /\ avl_node_size(root) = 1

\* C15 as amended: in scenario S3 replace_ordered reports some((1, 0)): the
\* removal index 0 corrected by one, the insertion index 0 being <= it;
\* get_at(0) is 350 and the size is 1.
C15_ScenarioS3Corrected ==
  ScenarioS3
    => /\ last.exc = "ok"
       /\ last.res = <<1, 0>>
       /\ avl_node_get_at_index(root, 0).res = <<last.args[2]>>
       /\ avl_node_size(root) = 1

\* C15 witness: the scenario ran, and the tree now holds the new element alone.
C15_Witness ==
  /\ ScenarioS3
  /\ last.res = <<1, 0>>
  /\ InOrder(root) = <<last.args[2]>>
  /\ last.allocs = 1 /\ last.frees = 1

\* What replace_ordered has to report when its removal returned rem and the
\* insertion of the new value into what the removal left returned ins.
ReportsIndices(rem, ins) ==
  LET removal == rem.res[1]
      insertion == ins.res[1]
      no_merge_occurred == "merge" \notin ins.events
  IN /\ removal \in 0..(Len(PreSeq) - 1)
     /\ PreSeq[removal + 1] = last.args[1]
     /\ last.res = <<removal + B2I(insertion <= removal /\ no_merge_occurred),
                     insertion>>
     /\ (policy = "no_merge" /\ Sorted(PreSeq, LessOf(policy)))
          => insertion = CountLess(RemoveSeq(PreSeq, removal), last.args[2],
                                   LessOf(policy))

ReportsIndicesAfter(rem) ==
  ReportsIndices(rem, avl_node_insert_ordered(rem.node, last.args[2],
                                              LessOf(policy), policy))

\* C16: when replace_ordered(old, new) succeeds, the removal index reported
\* is the index old had before the call, plus 1 if and only if the insertion
\* index is <= that index and no merge occurred; the insertion index
\* reported is the one insert_ordered of new returned on the tree the
\* removal left.
C16_ReplaceOrderedIndices ==
  (last.op = "replace_ordered" /\ last.exc = "ok" /\ last.res # <<>>)
    => ReportsIndicesAfter(
         avl_node_remove_ordered(last.pre, last.args[1], LessOf(policy)))

\* C16 witness: the insertion index is <= the removal index, and the
\* removal index is reported without correction because the new value merged.
C16_Witness ==
  /\ last.op = "replace_ordered" /\ last.exc = "ok"
  /\ Len(last.res) = 2
  /\ Merged
  /\ Len(PreSeq) >= 3
  /\ last.res[1] >= 1
  /\ last.res[2] <= last.res[1]
  /\ PreSeq[last.res[1] + 1] = last.args[1]

\* Scenario S5: insert_ordered of (key, 1) with merge_count into what the
\* calls before it returned.
S5Insert(before, key) ==
  avl_node_insert_ordered(before.node, <<key, 1>>, "pair_less", "merge_count")

S5After1 == S5Insert([node |-> Null], 1)

S5After2 == S5Insert(S5After1, 2)

S5After3 == S5Insert(S5After2, 1)

S5After4 == S5Insert(S5After3, 3)

\* C17: scenario S5: with merge_count, insert_ordered of (1,1), (2,1), (1,1),
\* (3,1), (1,1) into the empty tree yields the traversal [(1,3), (2,1), (3,1)]
\* and size 3.
C17_ScenarioS5 ==
  (/\ policy = "merge_count"
   /\ last.op = "insert_ordered"
   /\ last.args = << <<1, 1>> >>
   /\ last.pre = S5After4.node)
    => /\ last.exc = "ok"
       /\ InOrder(root) = << <<1, 3>>, <<2, 1>>, <<3, 1>> >>
       /\ avl_node_size(root) = 3

\* Strictly increasing under less.
StrictlySorted(seq, _less) ==
  \A j \in 1..(Len(seq) - 1) : apply_less(_less, seq[j], seq[j + 1])

\* C18: with merge_if_equal and a total order, on a tree built by the
\* ordered operations, insert_ordered(v) of a value already present leaves
\* the size and the traversal unchanged, and the traversal is always
\* strictly increasing.
C18_InsertOrderedIdempotent ==
  policy = "merge_if_equal"
    => /\ Defined
       /\ StrictlySorted(InOrder(root), LessOf(policy))
       /\ (last.op = "insert_ordered" /\ Occurs(PreSeq, last.args[1]))
            => /\ InOrder(root) = PreSeq
               /\ avl_node_size(root) = avl_node_size(last.pre)

\* C18 witness: a value present below the root of a tree of four or more
\* elements is inserted again and absorbed.
C18_Witness ==
  /\ policy = "merge_if_equal"
  /\ last.op = "insert_ordered"
  /\ Len(PreSeq) >= 4
  /\ Occurs(PreSeq, last.args[1])
  /\ last.pre.value # last.args[1]
  /\ Merged
  /\ InOrder(root) = PreSeq

\* C19: when insert_ordered(v) into a sorted tree is absorbed by merge, the
\* index it returns is the in-order index of the surviving element that
\* absorbed v, wherever the merge target is.
C19_MergeIndex ==
  (last.op = "insert_ordered" /\ Merged /\ Sorted(PreSeq, LessOf(policy)))
    => /\ last.exc = "ok"
       /\ Len(last.res) = 1
       /\ last.res[1] \in 0..(Len(PreSeq) - 1)
       /\ apply_merge(policy, PreSeq[last.res[1] + 1], last.args[1]).merged
       /\ InOrder(root)[last.res[1] + 1] =
            apply_merge(policy, PreSeq[last.res[1] + 1], last.args[1]).to

\* What remove_at(i) has to return on the tree insert_at(i, v) left.
GivesBack(removed) ==
  /\ removed.exc = "ok"
  /\ removed.res = <<last.args[2]>>
  /\ InOrder(removed.node) = PreSeq
  /\ avl_node_size(removed.node) = avl_node_size(last.pre)

\* C20: round trip: with never-merge, for every tree T, index i in
\* [0, size(T)] and value v, remove_at(i) on the result of insert_at(T, i, v)
\* returns v and a tree with the traversal and the size of T.
C20_RoundTrip ==
  (last.op = "insert_at" /\ last.args[1] \in 0..Len(PreSeq))
    => /\ last.exc = "ok"
       /\ GivesBack(avl_node_remove_at_index(root, last.args[1]))

\* The removal took out a node with two children.
RemovalOfInner(removed) == "two_children" \in removed.events

\* C20 witness: the insert rotated the new element into an inner node, and
\* the removal that undoes it takes out a node with two children; the tree
\* does not get its old shape back.
C20_Witness ==
  /\ last.op = "insert_at" /\ last.exc = "ok"
  /\ Len(PreSeq) >= 4
  /\ "rebalance" \in last.events
  /\ RemovalOfInner(avl_node_remove_at_index(root, last.args[1]))
  /\ GivesBack(avl_node_remove_at_index(root, last.args[1]))
  /\ avl_node_remove_at_index(root, last.args[1]).node # last.pre

\* A subtree without its elements and aggregates: shape, sizes and balances.
RECURSIVE Skeleton(_)
Skeleton(node) ==
  IF IsNull(node) THEN Null
  ELSE [left |-> Skeleton(node.left), right |-> Skeleton(node.right),
        size |-> node.size, balance |-> node.balance]

Rotated == last.events \cap {"rebalance", "rotate_left", "rotate_right"} # {}

\* C21: when insert_at(i, v) is absorbed by merge, the call reports
\* grew = false and changes nothing structural: shape, size and every
\* balance factor are as before, and no ancestor of the merge target rotates.
C21_MergeIsNotGrowth ==
  (last.op = "insert_at" /\ Merged)
    => /\ last.exc = "ok"
       /\ last.flag = FALSE
       /\ Skeleton(root) = Skeleton(last.pre)
       /\ ~Rotated

\* C22: when insert_ordered or insert_at is absorbed by a merge that changes
\* the target element (merge_count adding counts, preprocess reading the
\* element), the aggregate invariant still holds afterwards at the target and
\* at each of its ancestors.
C22_AggregateAfterMerge ==
  (/\ last.op \in {"insert_ordered", "insert_at"}
   /\ Merged
   /\ last.exc = "ok"
   /\ AggregateOK(last.pre))
    => AggregateOK(root)

----------------------------------------------------------------------------
(* The rotations on their own: any subtree whose stored sizes, balances    *)
(* and aggregates are true, balanced or not, rotated at its root.          *)

\* A node over two subtrees, its balance the true height difference.
MakeNode(l, v, r) ==
  update([kind |-> "node", left |-> l, value |-> v, right |-> r, size |-> 1,
          balance |-> Height(r) - Height(l), subrange |-> rpre(v)])

\* Every subtree whose traversal is lo, lo + 1, ..., hi.
RECURSIVE SubtreesOver(_, _)
SubtreesOver(lo, hi) ==
  IF lo > hi THEN {Null}
  ELSE UNION {{MakeNode(l, v, r) : l \in SubtreesOver(lo, v - 1),
                                   r \in SubtreesOver(v + 1, hi)} : v \in lo..hi}

\* The frame of a call of a rotation.
rotation_frame(rot) == Frame(rot.node, FALSE, <<>>, rot.exc, 0, 0, rot.events)

InitRotate ==
  /\ root \in UNION {SubtreesOver(1, n) : n \in 0..MaxRotSize}
  /\ policy = "no_merge"
  /\ last = NoCall
  /\ live = Count(root)

RotateLeft ==
  /\ Running
  /\ ~IsNull(root)
  /\ Apply("rotate_left", <<>>, rotation_frame(rotate_left(root)))
  /\ UNCHANGED policy

RotateRight ==
  /\ Running
  /\ ~IsNull(root)
  /\ Apply("rotate_right", <<>>, rotation_frame(rotate_right(root)))
  /\ UNCHANGED policy

NextRotate ==
  \/ Return
  \/ RotateLeft
  \/ RotateRight

SpecRotate == InitRotate /\ [][NextRotate]_vars

\* Every stored balance is the true height difference, whatever its size.
BalanceTrue(node) ==
  \A n \in NodesOf(node) : n.balance = Height(n.right) - Height(n.left)

\* The stored balance of a node lies in -2..2.
Small(node) == node.balance \in -2..2

\* C23: for a node n with a right child pivot, both with true stored
\* balances in -2..2, rotate_left(n) returns pivot with n as its left child
\* and the old pivot.left as n.right, keeps the traversal, and leaves
\* n.balance = old n.balance - 1 - max(0, old pivot.balance) and
\* pivot.balance = old pivot.balance - 1 + min(0, new n.balance), both the
\* true height differences; rotate_right is the mirror.
C23_RotationFormulas ==
  /\ (/\ last.op = "rotate_left"
      /\ ~IsNull(last.pre.right)
      /\ Small(last.pre) /\ Small(last.pre.right)
      /\ BalanceTrue(last.pre))
       => /\ last.exc = "ok"
          /\ root.value = last.pre.right.value
          /\ root.right = last.pre.right.right
          /\ root.left.value = last.pre.value
          /\ root.left.left = last.pre.left
          /\ root.left.right = last.pre.right.left
          /\ InOrder(root) = PreSeq
          /\ root.left.balance =
               last.pre.balance - 1 - Max(0, last.pre.right.balance)
          /\ root.balance =
               last.pre.right.balance - 1 + Min(0, root.left.balance)
          /\ BalanceTrue(root)
  /\ (/\ last.op = "rotate_right"
      /\ ~IsNull(last.pre.left)
      /\ Small(last.pre) /\ Small(last.pre.left)
      /\ BalanceTrue(last.pre))
       => /\ last.exc = "ok"
          /\ root.value = last.pre.left.value
          /\ root.left = last.pre.left.left
          /\ root.right.value = last.pre.value
          /\ root.right.right = last.pre.right
          /\ root.right.left = last.pre.left.right
          /\ InOrder(root) = PreSeq
          /\ root.right.balance =
               last.pre.balance + 1 + Max(0, - last.pre.left.balance)
          /\ root.balance =
               last.pre.left.balance + 1 + Max(0, root.right.balance)
          /\ BalanceTrue(root)

\* C23 witness: a rotation no insert or remove asks for: rotate_right of a
\* right-leaning node whose pivot leans left, which leaves the demoted node
\* with balance +3.
C23_Witness ==
  /\ last.op = "rotate_right" /\ last.exc = "ok"
  /\ last.pre.balance = 1
  /\ last.pre.left.balance = -1
  /\ BalanceTrue(last.pre)
  /\ root.right.balance = 3
  /\ BalanceTrue(root)
  /\ InOrder(root) = PreSeq

----------------------------------------------------------------------------
(* C24: the grew flag of every frame of an insert *)

\* What one frame of an insert returned, against the subtree it was given.
FrameGrew(node, r) ==
  r.exc = "ok"
    => /\ r.flag <=> (Height(r.node) = Height(node) + 1)
       /\ ~r.flag => Height(r.node) = Height(node)
       /\ "rebalance" \in r.events
            => ~r.flag /\ Height(r.node) = Height(node)

\* The same for the call as a whole, as the state records it.
RootGrew ==
  last.exc = "ok"
    => /\ last.flag <=> (Height(root) = Height(last.pre) + 1)
       /\ ~last.flag => Height(root) = Height(last.pre)
       /\ "rebalance" \in last.events
            => ~last.flag /\ Height(root) = Height(last.pre)

RECURSIVE InsertAtFrames(_, _, _)
InsertAtFrames(node, index, value) ==
  /\ FrameGrew(node, avl_node_insert_at_index(node, index, value, "no_merge"))
  /\ \/ IsNull(node)
     \/ IF index <= avl_node_size(node.left)
        THEN InsertAtFrames(node.left, index, value)
        ELSE InsertAtFrames(node.right,
                            index - avl_node_size(node.left) - 1, value)

RECURSIVE InsertOrderedFrames(_, _)
InsertOrderedFrames(node, value) ==
  /\ FrameGrew(node, avl_node_insert_ordered(node, value, LessOf("no_merge"),
                                             "no_merge"))
  /\ \/ IsNull(node)
     \/ IF ~apply_less(LessOf("no_merge"), node.value, value)
        THEN InsertOrderedFrames(node.left, value)
        ELSE InsertOrderedFrames(node.right, value)

\* C24: with the never-merge policy, every frame of an insert_at or
\* insert_ordered call (the root's and each one below it on the descent)
\* reports grew exactly when the subtree it returns is one higher than the
\* subtree it was given, the height being otherwise unchanged; and once a
\* frame has rebalanced, the subtree has its height of before the insert and
\* grew is false.
C24_GrewIffHigher ==
  /\ (last.op = "insert_at" /\ policy = "no_merge")
       => /\ InsertAtFrames(last.pre, last.args[1], last.args[2])
          /\ RootGrew
  /\ (last.op = "insert_ordered" /\ policy = "no_merge")
       => /\ InsertOrderedFrames(last.pre, last.args[1])
          /\ RootGrew

\* An insert that makes a tree of height 3 grow to height 4.
GrewToFour ==
  /\ last.op = "insert_ordered" /\ last.exc = "ok" /\ policy = "no_merge"
  /\ Height(last.pre) = 3 /\ last.flag /\ Height(root) = 4

\* An insert into a tree of height 3 with a rebalance on the way.
C24_Witness ==
  /\ last.op = "insert_at" /\ last.exc = "ok" /\ policy = "no_merge"
  /\ Height(last.pre) = 3
  /\ "rebalance" \in last.events /\ ~last.flag

----------------------------------------------------------------------------
(* C25: the shrank flag of every frame of a removal *)

\* Stands for the child's frame where a frame made no recursive call.
NoChild == Frame(Null, FALSE, <<>>, "ok", 0, 0, {})

\* The frame at node rebalanced: its child (the left one for dir = 1, the
\* right one for dir = -1) came back shorter and that took the balance to
\* 2 or -2.
RebalancedHere(node, child, dir) ==
  /\ dir # 0 /\ child.exc = "ok" /\ child.flag
  /\ node.balance + dir \in {-2, 2}

\* What one frame of a removal returned, against the subtree it was given.
FrameShrank(node, r, child, dir) ==
  r.exc = "ok"
    => /\ r.flag <=> (Height(r.node) = Height(node) - 1)
       /\ ~r.flag => Height(r.node) = Height(node)
       /\ RebalancedHere(node, child, dir)
            => (r.flag <=> (r.node.balance = 0))

\* The same for the call as a whole, as the state records it.
RootShrank ==
  last.exc = "ok"
    => /\ last.flag <=> (Height(root) = Height(last.pre) - 1)
       /\ ~last.flag => Height(root) = Height(last.pre)

RECURSIVE RemoveAtFrames(_, _)
RemoveAtFrames(node, index) ==
  IF IsNull(node)
  THEN FrameShrank(node, avl_node_remove_at_index(node, index), NoChild, 0)
  ELSE IF index = avl_node_size(node.left)
  THEN IF IsNull(node.left) \/ IsNull(node.right)
       THEN FrameShrank(node, avl_node_remove_at_index(node, index),
                        NoChild, 0)
       ELSE /\ FrameShrank(node, avl_node_remove_at_index(node, index),
                           avl_node_remove_at_index(node.right, 0), -1)
            /\ RemoveAtFrames(node.right, 0)
  ELSE IF index < avl_node_size(node.left)
  THEN /\ FrameShrank(node, avl_node_remove_at_index(node, index),
                      avl_node_remove_at_index(node.left, index), 1)
       /\ RemoveAtFrames(node.left, index)
  ELSE /\ FrameShrank(node, avl_node_remove_at_index(node, index),
                      avl_node_remove_at_index(
                        node.right, index - avl_node_size(node.left) - 1), -1)
       /\ RemoveAtFrames(node.right, index - avl_node_size(node.left) - 1)

RECURSIVE RemoveOrderedFrames(_, _, _)
RemoveOrderedFrames(node, value, _less) ==
  IF IsNull(node)
  THEN FrameShrank(node, avl_node_remove_ordered(node, value, _less),
                   NoChild, 0)
  ELSE IF node.value = value
  THEN IF IsNull(node.left) \/ IsNull(node.right)
       THEN FrameShrank(node, avl_node_remove_ordered(node, value, _less),
                        NoChild, 0)
       ELSE /\ FrameShrank(node, avl_node_remove_ordered(node, value, _less),
                           avl_node_remove_at_index(node.right, 0), -1)
            /\ RemoveAtFrames(node.right, 0)
  ELSE IF apply_less(_less, value, node.value)
  THEN /\ FrameShrank(node, avl_node_remove_ordered(node, value, _less),
                      avl_node_remove_ordered(node.left, value, _less), 1)
       /\ RemoveOrderedFrames(node.left, value, _less)
  ELSE /\ FrameShrank(node, avl_node_remove_ordered(node, value, _less),
                      avl_node_remove_ordered(node.right, value, _less), -1)
       /\ RemoveOrderedFrames(node.right, value, _less)

\* C25: every frame of a remove_at or remove_ordered call (the root's and
\* each one below it on the descent, the removal of the successor included)
\* reports shrank exactly when the subtree it returns is one lower than the
\* subtree it was given, the height being otherwise unchanged; a frame whose
\* balance reached 2 or -2 and that rebalanced reports shrank exactly when
\* the new root of its subtree has balance 0.
C25_ShrankIffLower ==
  /\ last.op = "remove_at"
       => RemoveAtFrames(last.pre, last.args[1]) /\ RootShrank
  /\ last.op = "remove_ordered"
       => /\ RemoveOrderedFrames(last.pre, last.args[1], LessOf(policy))
          /\ RootShrank

\* A removal that rebalanced at the root and came back shorter.
ShrankAfterRebalance ==
  /\ last.op = "remove_ordered" /\ last.exc = "ok"
  /\ ~IsNull(last.pre)
  /\ apply_less(LessOf(policy), last.pre.value, last.args[1])
  /\ RebalancedHere(last.pre,
                    avl_node_remove_ordered(last.pre.right, last.args[1],
                                            LessOf(policy)), -1)
  /\ last.flag /\ root.balance = 0

\* A removal from the left that rebalanced at the root of a tree of height
\* 3 and left the height as it was, the new root having a balance other
\* than 0.
C25_Witness ==
  /\ last.op = "remove_at" /\ last.exc = "ok"
  /\ Height(last.pre) = 3
  /\ last.args[1] < avl_node_size(last.pre.left)
  /\ RebalancedHere(last.pre,
                    avl_node_remove_at_index(last.pre.left, last.args[1]), 1)
  /\ ~last.flag /\ root.balance # 0

----------------------------------------------------------------------------
(* C26: where an insert calls the merge function *)

\* A node is named by the path to it from the root of the call: a sequence
\* of "L" and "R".

\* insert_at_index that calls _merge at the root of the call only.
insert_at_index_consults_root_only(node, index, value, _merge, path) ==
  IF IsNull(node) THEN {} ELSE {path}

RECURSIVE insert_at_index_consults(_, _, _, _, _)

\* The nodes at which avl_node_insert_at_index calls _merge (line 636):
\* every frame with a non-null node calls it before anything else, and
\* recurses (lines 642, 656) only when it returned false.
insert_at_index_consults(node, index, value, _merge, path) ==
  IF IsNull(node) THEN {}
  ELSE IF apply_merge(_merge, node.value, value).merged THEN {path}
  ELSE IF index <= avl_node_size(node.left)
  THEN {path} \cup insert_at_index_consults(node.left, index, value, _merge,
                                            Append(path, "L"))
  ELSE {path} \cup insert_at_index_consults(
                     node.right, index - (avl_node_size(node.left) + 1),
                     value, _merge, Append(path, "R"))

RECURSIVE insert_ordered_consults(_, _, _, _, _)

\* The nodes at which avl_node_insert_ordered calls _merge (line 716).
insert_ordered_consults(node, value, _less, _merge, path) ==
  IF IsNull(node) THEN {}
  ELSE IF apply_merge(_merge, node.value, value).merged THEN {path}
  ELSE IF ~apply_less(_less, node.value, value)
  THEN {path} \cup insert_ordered_consults(node.left, value, _less, _merge,
                                           Append(path, "L"))
  ELSE {path} \cup insert_ordered_consults(node.right, value, _less, _merge,
                                           Append(path, "R"))

\* The nodes at which the last call, an insert, called _merge.
Consulted ==
  IF last.op = "insert_at"
  THEN insert_at_index_consults(last.pre, last.args[1], last.args[2], policy,
                                <<>>)
  ELSE insert_ordered_consults(last.pre, last.args[1], LessOf(policy), policy,
                               <<>>)

RECURSIVE NodeAt(_, _)
NodeAt(node, path) ==
  IF path = <<>> THEN node
  ELSE IF IsNull(node) THEN Null
  ELSE NodeAt(IF Head(path) = "L" THEN node.left ELSE node.right, Tail(path))

\* The nodes a positional insert goes through when nothing is merged.
RECURSIVE DescentAt(_, _, _)
DescentAt(node, index, path) ==
  IF IsNull(node) THEN {}
  ELSE IF index <= avl_node_size(node.left)
  THEN {path} \cup DescentAt(node.left, index, Append(path, "L"))
  ELSE {path} \cup DescentAt(node.right,
                             index - avl_node_size(node.left) - 1,
                             Append(path, "R"))

\* The nodes an ordered insert goes through when nothing is merged.
RECURSIVE DescentOrdered(_, _, _, _)
DescentOrdered(node, value, _less, path) ==
  IF IsNull(node) THEN {}
  ELSE IF ~apply_less(_less, node.value, value)
  THEN {path} \cup DescentOrdered(node.left, value, _less, Append(path, "L"))
  ELSE {path} \cup DescentOrdered(node.right, value, _less, Append(path, "R"))

Descent ==
  IF last.op = "insert_at"
  THEN DescentAt(last.pre, last.args[1], <<>>)
  ELSE DescentOrdered(last.pre, last.args[1], LessOf(policy), <<>>)

\* The value given to the last call, an insert.
Inserted == IF last.op = "insert_at" THEN last.args[2] ELSE last.args[1]

\* The merge function takes the inserted value at the node at path.
Accepts(path) ==
  apply_merge(policy, NodeAt(last.pre, path).value, Inserted).merged

IsPrefix(q, p) == Len(q) <= Len(p) /\ SubSeq(p, 1, Len(q)) = q

\* The node that gets the new element as its child when nothing is merged:
\* the deepest node of the descent.
Receiver == {p \in Descent : \A q \in Descent : Len(q) <= Len(p)}

IsInsert == last.op \in {"insert_at", "insert_ordered"}

\* C26: an insert_at or insert_ordered call calls the merge function only
\* at the node that would structurally receive the new element, not at the
\* other nodes on the descent from the root.
C26_MergeOnlyAtReceiver == IsInsert => Consulted \subseteq Receiver

\* C26, amended: an insert_at or insert_ordered call calls the merge
\* function at every node of the descent from the root, the root first, up
\* to and including the first node where it accepts, and at no other node;
\* the call has merged exactly when it accepted at one of them.
C26_MergeOnDescent ==
  IsInsert
    => /\ Consulted
            = {p \in Descent :
                 \A q \in Descent : (IsPrefix(q, p) /\ q # p) => ~Accepts(q)}
       /\ last.exc = "ok" => (Merged <=> \E p \in Consulted : Accepts(p))

\* An ordered insert that called the merge function at the root, which
\* refused, and then at a child that is not the receiving node, which
\* accepted.
RefusedThenAccepted ==
  /\ last.op = "insert_ordered" /\ last.exc = "ok" /\ Merged
  /\ Cardinality(Consulted) = 2
  /\ Consulted \cap Receiver = {}

\* A positional insert absorbed at a node of the descent that is not the
\* receiving node.
C26_Witness ==
  /\ last.op = "insert_at" /\ last.exc = "ok" /\ Merged
  /\ Cardinality(Descent) >= 2
  /\ Consulted # {} /\ Consulted \cap Receiver = {}

----------------------------------------------------------------------------
(* C27: node accounting *)

Succeeded ==
  /\ last.exc = "ok"
  /\ last.op = "remove_ordered" => last.res # <<>>

AbsorbedBelowRoot ==
  /\ IsInsert /\ Merged /\ last.exc = "ok"
  /\ <<>> \in Consulted /\ ~Accepts(<<>>)
  /\ last.allocs = 0 /\ live = Count(last.pre)

====
